---- MODULE Spec2Model ----
(***************************************************************************)
(* A model of the document assembler of AI-PPT-Editor-Generator:           *)
(* PresentationEngine.build_from_structured_text and the capacity helpers  *)
(* (src/presentation_engine.py), LayoutEngine's selector and apply_layout  *)
(* (src/layout_engine.py), and parse_presentation and edit_shape.          *)
(* Spec is a sequence of builds; SpecCap, SpecSel, SpecEdit and SpecExt    *)
(* call the capacity helpers, the selector, edit_shape, and the extractors *)
(* and apply_layout directly.  SpecApp is the request handlers of          *)
(* src/app.py run by two threads on one session; there the document is a   *)
(* version number and pc, inp, prs and ret are functions of the thread.    *)
(*                                                                         *)
(* Text is modelled as it is processed.  A title is a sequence of          *)
(* one-character strings.  A collaborator reply is a sequence of tokens:   *)
(* "ws" (white space), "fence" (a code fence, three backticks), "json" (the word after a      *)
(* fence), "prose" (any other text), and "J" (the serialised JSON value    *)
(* the reply carries) or "X" (text that is not JSON).                       *)
(* A JSON value is a record; "json" names its Python type after            *)
(* json.loads ("dict", "str", "num"), and a dict's keys are the record's   *)
(* other fields, so that  k \in DOMAIN d  is Python's  k in d.             *)
(***************************************************************************)
EXTENDS Integers, Sequences, FiniteSets, TLC

\* ------------------------------------------------------------------ bounds
\* Longest plan list the content planner returns.
MaxPlans == 2
\* Most slides the document holds before the first build.
MaxOld == 1
\* Builds run one after the other on the same document.
MaxBuilds == 2

\* ------------------------------------------------------------ text helpers
RECURSIVE LStrip(_, _)
LStrip(s, c) ==
    IF s # <<>> /\ Head(s) = c THEN LStrip(Tail(s), c) ELSE s

RECURSIVE RStrip(_, _)
RStrip(s, c) ==
    IF s # <<>> /\ s[Len(s)] = c THEN RStrip(SubSeq(s, 1, Len(s) - 1), c) ELSE s

\* str.strip(c): c removed from both ends, as often as it stands there.
StripTok(s, c) == RStrip(LStrip(s, c), c)

\* str.strip(): white space removed from both ends.
Strip(s) == StripTok(s, "ws")

StartsWith(s, p) == Len(s) >= Len(p) /\ SubSeq(s, 1, Len(p)) = p

EndsWith(s, p) == Len(s) >= Len(p) /\ SubSeq(s, Len(s) - Len(p) + 1, Len(s)) = p

\* Python's  p in s  for strings.
Contains(s, p) ==
    \E i \in 1..(Len(s) - Len(p) + 1) : SubSeq(s, i, i + Len(p) - 1) = p

\* dict.get(k, default)
Get(d, k, default) == IF k \in DOMAIN d THEN d[k] ELSE default

IsDict(v) == v.json = "dict"


\* ------------------------------------------------------------- the catalog
\* What _load_layouts returns when the layout file cannot be read or parsed.
DefaultCatalog ==
    [ layouts |-> <<>>, defaultLayout |-> "content_with_title" ]

\* A layout file (slide_layouts.json): layouts with their ordered element
\* types and capacity limits, and the declared default layout.
FileCatalog ==
    [ layouts |->
        << [ id |-> "title_slide", elements |-> <<"title", "subtitle">>,
             capacity |-> <<>> ],
           [ id |-> "content_with_title", elements |-> <<"title", "content">>,
             capacity |-> [ bullets |-> 2 ] ],
           [ id |-> "two_content_boxes",
             elements |-> <<"title", "content_box", "content_box">>,
             capacity |-> [ boxes |-> 2, itemsPerBox |-> 2 ] ],
           [ id |-> "process_flow", elements |-> <<"title", "process_flow">>,
             capacity |-> [ steps |-> 2 ] ],
           [ id |-> "table", elements |-> <<"title", "table">>,
             capacity |-> [ rows |-> 2 ] ] >>,
      defaultLayout |-> "content_with_title" ]

Catalogs == { DefaultCatalog, FileCatalog }

\* self.layout_map: the ids of the loaded layouts, and the layout of an id.
LayoutIds(L) == { L.layouts[i].id : i \in DOMAIN L.layouts }

LayoutOf(L, id) ==
    L.layouts[CHOOSE i \in DOMAIN L.layouts : L.layouts[i].id = id]

\* LayoutEngine.__init__ sets self.layouts and self.layout_map and nothing
\* else: the object has no attribute capacity_map.
HasCapacityMap == FALSE

\* The capacity limits a layout declares (none for an id the catalog lacks).
CapacityOf(L, id) ==
    IF id \in LayoutIds(L) THEN LayoutOf(L, id).capacity ELSE <<>>

\* ------------------------------------------- the fallback's trigger words
\* Each set is one  any(trigger in title for trigger in [...])  list of
\* _fallback_layout_selection, its strings spelled character by character.
triggers_kpi ==
    { <<"d","a","s","h","b","o","a","r","d">>,
      <<"m","e","t","r","i","c","s">>,
      <<"k","p","i">>,
      <<"p","e","r","f","o","r","m","a","n","c","e"," ","m","e","t","r","i","c","s">> }

triggers_overlay ==
    { <<"i","m","p","a","c","t","f","u","l">>,
      <<"d","r","a","m","a","t","i","c">>,
      <<"v","i","s","u","a","l"," ","s","t","a","t","e","m","e","n","t">> }

triggers_split ==
    { <<"s","p","l","i","t">>,
      <<"d","u","a","l"," ","v","i","e","w">>,
      <<"t","w","o"," ","p","e","r","s","p","e","c","t","i","v","e","s">>,
      <<"l","e","f","t"," ","v","s"," ","r","i","g","h","t">> }

triggers_hierarchy ==
    { <<"h","i","e","r","a","r","c","h","y">>,
      <<"p","y","r","a","m","i","d">>,
      <<"l","e","v","e","l","s">>,
      <<"f","o","u","n","d","a","t","i","o","n">> }

triggers_circular ==
    { <<"e","c","o","s","y","s","t","e","m">>,
      <<"h","u","b">>,
      <<"c","e","n","t","r","a","l">>,
      <<"c","o","r","e">> }

triggers_comparison_table ==
    { <<"c","o","m","p","a","r","i","s","o","n"," ","t","a","b","l","e">>,
      <<"v","e","r","s","u","s"," ","t","a","b","l","e">>,
      <<"f","e","a","t","u","r","e"," ","c","o","m","p","a","r","i","s","o","n">> }

triggers_timeline ==
    { <<"t","i","m","e","l","i","n","e">>,
      <<"r","o","a","d","m","a","p">>,
      <<"p","h","a","s","e","s">>,
      <<"j","o","u","r","n","e","y">> }

triggers_process ==
    { <<"p","r","o","c","e","s","s">>,
      <<"s","t","e","p","s">>,
      <<"w","o","r","k","f","l","o","w">>,
      <<"p","r","o","c","e","d","u","r","e">> }

triggers_alternating ==
    { <<"a","l","t","e","r","n","a","t","i","n","g">>,
      <<"b","a","c","k"," ","a","n","d"," ","f","o","r","t","h">>,
      <<"d","i","a","l","o","g","u","e">> }

triggers_before_after ==
    { <<"b","e","f","o","r","e"," ","a","f","t","e","r">>,
      <<"t","h","e","n"," ","n","o","w">>,
      <<"p","r","o","b","l","e","m"," ","s","o","l","u","t","i","o","n">> }

triggers_sidebar ==
    { <<"s","i","d","e","b","a","r">>,
      <<"w","i","t","h"," ","n","o","t","e","s">>,
      <<"p","l","u","s"," ","c","o","n","t","e","x","t">> }

triggers_highlights ==
    { <<"k","e","y"," ","t","a","k","e","a","w","a","y","s">>,
      <<"h","i","g","h","l","i","g","h","t","s">>,
      <<"c","a","l","l","o","u","t","s">> }

triggers_gallery ==
    { <<"g","a","l","l","e","r","y">>,
      <<"s","h","o","w","c","a","s","e">>,
      <<"e","x","a","m","p","l","e","s">>,
      <<"p","o","r","t","f","o","l","i","o">> }

triggers_centered ==
    { <<"k","e","y"," ","m","e","s","s","a","g","e">>,
      <<"c","e","n","t","r","a","l"," ","i","d","e","a">>,
      <<"m","a","i","n"," ","p","o","i","n","t">>,
      <<"f","o","c","u","s">> }

triggers_versus ==
    { <<"v","s">>,
      <<"v","e","r","s","u","s">>,
      <<"c","o","m","p","a","r","i","s","o","n">>,
      <<"h","i","g","h","l","i","g","h","t","s">> }

triggers_cta ==
    { <<"n","e","x","t"," ","s","t","e","p","s">>,
      <<"a","c","t","i","o","n"," ","i","t","e","m","s">>,
      <<"g","e","t"," ","s","t","a","r","t","e","d">>,
      <<"c","o","n","c","l","u","s","i","o","n">> }

triggers_section ==
    { <<"s","t","r","a","t","e","g","i","c">>,
      <<"i","n","i","t","i","a","t","i","v","e","s">>,
      <<"c","h","a","p","t","e","r">>,
      <<"s","e","c","t","i","o","n">> }

triggers_image ==
    { <<"i","m","a","g","e">>,
      <<"p","h","o","t","o">>,
      <<"v","i","s","u","a","l">>,
      <<"p","i","c","t","u","r","e">> }

gallery_media ==
    { <<"i","m","a","g","e">>,
      <<"p","h","o","t","o">>,
      <<"v","i","s","u","a","l">> }

\* --------------------------------------------------------- layout selector
UpperCase ==
    <<"A","B","C","D","E","F","G","H","I","J","K","L","M",
      "N","O","P","Q","R","S","T","U","V","W","X","Y","Z">>

LowerCase ==
    <<"a","b","c","d","e","f","g","h","i","j","k","l","m",
      "n","o","p","q","r","s","t","u","v","w","x","y","z">>

\* str.lower()
Lower(s) ==
    [ i \in DOMAIN s |->
        IF \E k \in DOMAIN UpperCase : UpperCase[k] = s[i]
        THEN LowerCase[CHOOSE k \in DOMAIN UpperCase : UpperCase[k] = s[i]]
        ELSE s[i] ]

\* str.split(): the maximal runs of characters other than white space.
RECURSIVE SplitFrom(_, _)
SplitFrom(s, word) ==
    IF s = <<>> THEN (IF word = <<>> THEN <<>> ELSE <<word>>)
    ELSE IF Head(s) = " "
         THEN (IF word = <<>> THEN <<>> ELSE <<word>>) \o SplitFrom(Tail(s), <<>>)
         ELSE SplitFrom(Tail(s), Append(word, Head(s)))

Split(s) == SplitFrom(s, <<>>)

Digits == {"0","1","2","3","4","5","6","7","8","9"}

\* A test that takes a number without a percent sign as well.
IsNumberToken(w) ==
    /\ Len(w) >= 1
    /\ w[1] \in Digits
    /\ \A i \in 1..(Len(w) - 1) : w[i] \in Digits \cup {"."}
    /\ w[Len(w)] \in Digits \cup {"%"}

\* re.search(r'^\d+\.?\d*%$', word)
IsPercentToken(w) ==
    /\ Len(w) >= 2
    /\ w[Len(w)] = "%"
    /\ w[1] \in Digits
    /\ \A i \in 1..(Len(w) - 1) : w[i] \in Digits \cup {"."}
    /\ Cardinality({ i \in 1..(Len(w) - 1) : w[i] = "." }) <= 1

AnyTrigger(triggers, title) == \E t \in triggers : Contains(title, t)

\* The layout a block type names in the loop over content_blocks.
TypedLayout(t) ==
    CASE t = "table" -> "table"
      [] t = "process" -> "process_flow"
      [] t = "kpi" -> "kpi_dashboard"
      [] t = "pyramid" -> "pyramid_hierarchy"
      [] t = "comparison" -> "comparison_table"
      [] OTHER -> ""

\* for block in content_blocks: the layout of the first block whose type
\* names one, "" when no block does, "raise" when block.get fails on a
\* block that is not a dict before any block returned.
RECURSIVE BlockTypeScan(_)
BlockTypeScan(blocks) ==
    IF blocks = <<>> THEN ""
    ELSE IF ~IsDict(Head(blocks)) THEN "raise"
    ELSE IF TypedLayout(Get(Head(blocks), "type", "")) # ""
         THEN TypedLayout(Get(Head(blocks), "type", ""))
         ELSE BlockTypeScan(Tail(blocks))

BlocksOfType(blocks, t) ==
    { i \in DOMAIN blocks : Get(blocks[i], "type", "") = t }

\* The chain of keyword rules that follows the block-count rules.
KeywordLayout(L, title, blocks) ==
    LET n == Len(blocks) IN
    IF AnyTrigger(triggers_split, title) THEN "vertical_split"
    ELSE IF AnyTrigger(triggers_hierarchy, title) THEN "pyramid_hierarchy"
    ELSE IF AnyTrigger(triggers_circular, title) THEN "circular_diagram"
    ELSE IF AnyTrigger(triggers_comparison_table, title) THEN "comparison_table"
    ELSE IF AnyTrigger(triggers_timeline, title) THEN "timeline"
    ELSE IF AnyTrigger(triggers_process, title) THEN "process_flow"
    ELSE IF AnyTrigger(triggers_alternating, title) THEN "alternating_content"
    ELSE IF AnyTrigger(triggers_before_after, title) THEN "top_bottom_split"
    ELSE IF AnyTrigger(triggers_sidebar, title) THEN "content_with_sidebar"
    ELSE IF AnyTrigger(triggers_highlights, title) THEN "content_with_highlights"
    ELSE IF AnyTrigger(triggers_gallery, title) /\ AnyTrigger(gallery_media, title)
         THEN (IF n <= 4 THEN "picture_grid_2x2" ELSE "three_column_images")
    ELSE IF AnyTrigger(triggers_centered, title) THEN "centered_content"
    ELSE IF AnyTrigger(triggers_versus, title)
         THEN (IF Cardinality(BlocksOfType(blocks, "content_box")) >= 2
               THEN "two_content_boxes" ELSE "two_column_text")
    ELSE IF AnyTrigger(triggers_cta, title) THEN "call_to_action"
    ELSE IF AnyTrigger(triggers_section, title) /\ blocks = <<>>
         THEN "section_divider"
    ELSE IF AnyTrigger(triggers_image, title) THEN "left_content_right_image"
    ELSE IF n = 2 THEN "two_column_text"
    ELSE IF n >= 3 /\ n <= 5 THEN "three_columns"
    ELSE L.defaultLayout

\* The block-count rules, then the keyword chain.  The block of the first
\* rule is the loop variable the scan left behind: the last block.
CountLayout(L, title, blocks) ==
    LET n == Len(blocks) IN
    IF n = 2 /\ Get(blocks[n], "type", "") = "content_box" THEN "two_content_boxes"
    ELSE IF n = 3 /\ BlocksOfType(blocks, "column") # {} THEN "three_columns"
    ELSE IF n = 4 THEN "four_content_grid"
    ELSE IF n = 5 THEN "five_columns"
    ELSE IF n = 6 THEN "six_box_grid"
    ELSE KeywordLayout(L, title, blocks)

\* _fallback_layout_selection(slide_content): the layout id, or "raise".
fallback_layout_selection(L, slide_content) ==
    LET raw == Get(slide_content, "title", <<>>)
        title == Lower(raw)
        blocks == Get(slide_content, "content_blocks", <<>>)
        words == Split(raw)
        first3 == SubSeq(words, 1, IF Len(words) < 3 THEN Len(words) ELSE 3)
    IN  IF Get(slide_content, "slide_number", 0) = 1
           \/ "subtitle" \in DOMAIN slide_content
        THEN "title_slide"
        ELSE IF Contains(raw, <<"\"">>) THEN "quote"
        ELSE IF \E i \in DOMAIN first3 : IsPercentToken(first3[i])
             THEN "big_number"
        ELSE IF AnyTrigger(triggers_kpi, title) THEN "kpi_dashboard"
        ELSE IF AnyTrigger(triggers_overlay, title) THEN "full_image_overlay"
        ELSE IF BlockTypeScan(blocks) # "" THEN BlockTypeScan(blocks)
        ELSE CountLayout(L, title, blocks)


\* The layout id a reply's text spells:
\* response.strip().strip('"').strip("'"), an id only if nothing but the
\* id token is left.
ReplyLayoutId(reply) ==
    IF StripTok(StripTok(Strip(reply.text), "\""), "'") = <<"ID">>
    THEN reply.id ELSE ""

\* A selector that takes the reply's id without looking it up.
analyze_unvalidated(L, slide_content, reply) ==
    IF reply.call = "raise" THEN fallback_layout_selection(L, slide_content)
    ELSE ReplyLayoutId(reply)

\* analyze_content_for_layout(slide_content, llm): the reply's id when the
\* call returns an id of layout_map, the fallback's result otherwise.
analyze_content_for_layout(L, slide_content, reply) ==
    IF reply.call = "raise" THEN fallback_layout_selection(L, slide_content)
    ELSE IF ReplyLayoutId(reply) \in LayoutIds(L) THEN ReplyLayoutId(reply)
    ELSE fallback_layout_selection(L, slide_content)

\* ------------------------------------------------------- capacity helpers
RECURSIVE SumLen(_, _, _)
\* sum(len(b.get(k, [])) for b in blocks if b.get("type") in types)
SumLen(blocks, types, k) ==
    IF blocks = <<>> THEN 0
    ELSE (IF Get(Head(blocks), "type", "") \in types
          THEN Len(Get(Head(blocks), k, <<>>)) ELSE 0)
         + SumLen(Tail(blocks), types, k)

RECURSIVE StepCount(_)
\* steps += len(sb.get("steps", sb.get("items", []))) over process and
\* bullets blocks
StepCount(blocks) ==
    IF blocks = <<>> THEN 0
    ELSE (IF Get(Head(blocks), "type", "") \in {"process", "bullets"}
          THEN Len(Get(Head(blocks), "steps", Get(Head(blocks), "items", <<>>)))
          ELSE 0)
         + StepCount(Tail(blocks))

RECURSIVE RowScan(_, _)
\* The loop over the table blocks: "true" at the first table with too many
\* rows, "raise" at a block that is not a dict, "false" at the end.
RowScan(blocks, rows) ==
    IF blocks = <<>> THEN "false"
    ELSE IF ~IsDict(Head(blocks)) THEN "raise"
    ELSE IF Get(Head(blocks), "type", "") = "table"
            /\ Len(Get(Head(blocks), "data", <<>>)) > rows THEN "true"
    ELSE RowScan(Tail(blocks), rows)

AllDicts(blocks) == \A i \in DOMAIN blocks : IsDict(blocks[i])

\* The body of _needs_shrink once caps is known: "true", "false" or "raise".
ExceedsCaps(caps, blocks) ==
    LET boxes == BlocksOfType(blocks, "content_box")
        both == "boxes" \in DOMAIN caps /\ "itemsPerBox" \in DOMAIN caps
    IN  IF "bullets" \in DOMAIN caps /\ ~AllDicts(blocks) THEN "raise"
        ELSE IF "bullets" \in DOMAIN caps
                /\ SumLen(blocks, {"bullets"}, "items") > caps.bullets THEN "true"
        ELSE IF both /\ ~AllDicts(blocks) THEN "raise"
        ELSE IF both /\ Cardinality(boxes) > caps.boxes THEN "true"
        ELSE IF both /\ \E i \in boxes :
                          Len(Get(blocks[i], "items", <<>>)) > caps.itemsPerBox
             THEN "true"
        ELSE IF "steps" \in DOMAIN caps /\ ~AllDicts(blocks) THEN "raise"
        ELSE IF "steps" \in DOMAIN caps /\ StepCount(blocks) > caps.steps THEN "true"
        ELSE IF "rows" \in DOMAIN caps THEN RowScan(blocks, caps.rows)
        ELSE "false"

\* _needs_shrink(slide_data, layout_id): "true", "false", or "raise" when
\* the call ends in an exception.  Its first statement reads
\* self.layout_engine.capacity_map.
needs_shrink(L, slide_data, layout_id) ==
    IF ~HasCapacityMap THEN "raise"
    ELSE ExceedsCaps(CapacityOf(L, layout_id),
                     Get(slide_data, "content_blocks", <<>>))

\* The reply text _summarize_to_fit hands to json.loads: stripped, and when
\* it starts with a fence, the part between the first two fences (or, with
\* one fence only, the text without it).
ShrinkText(text) ==
    LET r == Strip(text) IN
    IF ~StartsWith(r, <<"fence">>) THEN r
    ELSE IF \E i \in 2..Len(r) : r[i] = "fence"
         THEN SubSeq(r, 2, (CHOOSE i \in 2..Len(r) :
                              r[i] = "fence" /\ \A j \in 2..(i - 1) : r[j] # "fence") - 1)
         ELSE StripTok(r, "fence")

\* json.loads(text) succeeds when the text is one JSON value, white space
\* around it allowed.
JsonLoads(text) == Strip(text) = <<"J">>

\* _summarize_to_fit(slide_data, layout_id, llm): whether the call raised,
\* the slide data afterwards, and the collaborator calls it made.
summarize_to_fit(L, slide_data, layout_id, reply) ==
    IF ~HasCapacityMap
    THEN [ raised |-> TRUE, data |-> slide_data, calls |-> 0 ]
    ELSE IF ~({"title", "content_blocks"} \subseteq DOMAIN slide_data)
    THEN [ raised |-> TRUE, data |-> slide_data, calls |-> 0 ]
    ELSE IF /\ reply.call = "ok"
            /\ JsonLoads(ShrinkText(reply.text))
            /\ IsDict(reply.value)
            /\ {"title", "content_blocks"} \subseteq DOMAIN reply.value
    THEN [ raised |-> FALSE,
           data |-> [ slide_data EXCEPT !.title = reply.value.title,
                        !.content_blocks = reply.value.content_blocks ],
           calls |-> 1 ]
    ELSE [ raised |-> FALSE, data |-> slide_data, calls |-> 1 ]


\* ------------------------------------------------------------ apply_layout
Shape(kind, text) == [ kind |-> kind, text |-> text ]

\* The text box _add_content_box adds for content_blocks[box_index]; block
\* is the place of that block in the list, counted from 1.
BoxShape(k) == [ kind |-> "content_box", text |-> <<>>, block |-> k ]

\* block['type'] raises on a block that is not a dict or has no type.
NoType(b) == ~IsDict(b) \/ "type" \notin DOMAIN b

\* _get_element_index(slide, elem_type): the shapes of the slide that carry
\* an _element_type attribute equal to elem_type.
get_element_index(shapes, elem_type) ==
    Cardinality({ i \in DOMAIN shapes :
                    "_element_type" \in DOMAIN shapes[i]
                    /\ shapes[i]["_element_type"] = elem_type })

RECURSIVE ProcessSteps(_)
\* _extract_process_data: the items of bullets blocks and the steps of
\* process blocks, in block order.
ProcessSteps(blocks) ==
    IF blocks = <<>> THEN <<>>
    ELSE LET b == Head(blocks) IN
         (IF b.type = "bullets" /\ "items" \in DOMAIN b THEN b.items
          ELSE IF b.type = "process" /\ "steps" \in DOMAIN b THEN b.steps
          ELSE <<>>) \o ProcessSteps(Tail(blocks))

\* _add_process_flow: a box for every step and an arrow after every step
\* but the last.
StepShapes(shapes, steps) ==
    shapes \o [ i \in 1..(IF steps = <<>> THEN 0 ELSE 2 * Len(steps) - 1) |->
                  IF i % 2 = 1 THEN Shape("process_step", <<>>)
                  ELSE Shape("arrow", <<>>) ]

RECURSIVE TableScan(_)
\* The first loop of _extract_table_data: "raise", "table" (a table block
\* with data was found) or "" (none).
TableScan(blocks) ==
    IF blocks = <<>> THEN ""
    ELSE IF ~IsDict(Head(blocks)) THEN "raise"
    ELSE IF Get(Head(blocks), "type", "") = "table" /\ "data" \in DOMAIN Head(blocks)
         THEN "table"
    ELSE TableScan(Tail(blocks))

TableData(blocks) ==
    blocks[CHOOSE i \in DOMAIN blocks :
             /\ Get(blocks[i], "type", "") = "table" /\ "data" \in DOMAIN blocks[i]
             /\ \A j \in 1..(i - 1) :
                  ~(Get(blocks[j], "type", "") = "table" /\ "data" \in DOMAIN blocks[j])
          ].data

\* _create_element(slide, element, content): whether it raised, and the
\* slide's shapes afterwards.  A shape a handler added before it raised
\* stays on the slide.
create_element(shapes, elem_type, content) ==
    LET blocks == Get(content, "content_blocks", <<>>)
        same == [ raised |-> FALSE, shapes |-> shapes ]
    IN  CASE elem_type = "title" ->
               [ raised |-> FALSE,
                 shapes |-> Append(shapes, Shape("title", Get(content, "title", <<>>))) ]
          [] elem_type = "subtitle" ->
               [ raised |-> FALSE,
                 shapes |-> Append(shapes,
                                   Shape("subtitle", Get(content, "subtitle", <<>>))) ]
          [] elem_type = "content" ->
               [ raised |-> \E i \in DOMAIN blocks : NoType(blocks[i]),
                 shapes |-> Append(shapes, Shape("content", <<>>)) ]
          [] elem_type = "content_box" ->
               IF get_element_index(shapes, elem_type) < Len(blocks)
               THEN [ raised |-> ~IsDict(blocks[get_element_index(shapes, elem_type) + 1]),
                      shapes |-> Append(shapes,
                                        BoxShape(get_element_index(shapes, elem_type) + 1)) ]
               ELSE same
          [] elem_type = "process_flow" ->
               IF \E i \in DOMAIN blocks : NoType(blocks[i])
               THEN [ raised |-> TRUE, shapes |-> shapes ]
               ELSE [ raised |-> FALSE,
                      shapes |-> StepShapes(shapes, ProcessSteps(blocks)) ]
          [] elem_type = "table" ->
               IF TableScan(blocks) = "raise" THEN [ raised |-> TRUE, shapes |-> shapes ]
               ELSE IF TableScan(blocks) = "table"
               THEN (IF TableData(blocks) # <<>> /\ TableData(blocks)[1] # <<>>
                     THEN [ raised |-> FALSE,
                            shapes |-> Append(shapes, Shape("table", <<>>)) ]
                     ELSE same)
               ELSE [ raised |-> \E i \in DOMAIN blocks : NoType(blocks[i]),
                      shapes |-> shapes ]
          [] OTHER -> same

RECURSIVE ApplyElements(_, _, _)
\* for element in layout['elements']: self._create_element(...)
ApplyElements(shapes, elements, content) ==
    IF elements = <<>> THEN [ raised |-> FALSE, shapes |-> shapes ]
    ELSE LET r == create_element(shapes, Head(elements), content) IN
         IF r.raised THEN r ELSE ApplyElements(r.shapes, Tail(elements), content)

\* apply_layout(slide, layout_id, content): an id layout_map lacks is logged
\* and the slide is left as it is.
apply_layout(L, shapes, layout_id, content) ==
    IF layout_id \notin LayoutIds(L)
    THEN [ raised |-> FALSE, shapes |-> shapes ]
    ELSE ApplyElements(shapes, LayoutOf(L, layout_id).elements, content)


\* ------------------------------------------------------- the planner reply
\* The text build_from_structured_text hands to json.loads: stripped, a
\* leading fence (with or without the word json) and a trailing fence cut.
CleanPlanText(text) ==
    LET c0 == Strip(text)
        c1 == IF StartsWith(c0, <<"fence", "json">>) THEN SubSeq(c0, 3, Len(c0))
              ELSE IF StartsWith(c0, <<"fence">>) THEN SubSeq(c0, 2, Len(c0))
              ELSE c0
    IN  IF EndsWith(c1, <<"fence">>) THEN SubSeq(c1, 1, Len(c1) - 1) ELSE c1

\* A build that takes any reply for a plan.
PlanParsesAlways(reply) == TRUE

\* The plan list parsed from the planner's reply: a dict is wrapped in a
\* list, a list is taken as it is.  PlanParses says whether there is one:
\* a failed call, text json.loads rejects, or a value of another type ends
\* the build.
PlanParses(reply) ==
    /\ reply.call = "ok"
    /\ JsonLoads(CleanPlanText(reply.text))
    /\ reply.value.json \in {"dict", "list"}

PlanList(reply) ==
    CASE reply.value.json = "dict" -> <<reply.value>>
      [] reply.value.json = "list" -> reply.value.items
      [] OTHER -> <<>>

\* ------------------------------------------------------------ model inputs
T_Overview == <<"O","v","e","r","v","i","e","w">>

Bullets(n) ==
    [ json |-> "dict", type |-> "bullets", items |-> SubSeq(<<"a", "b", "c">>, 1, n) ]

\* Elements of a plan list: a string, a number, a slide within the bullets
\* capacity, a slide with three bullets, a slide whose block is a string.
sd_str == [ json |-> "str" ]
sd_num == [ json |-> "num" ]
sd_ok ==
    [ json |-> "dict", slide_number |-> 9, title |-> T_Overview,
      content_blocks |-> << Bullets(1) >> ]
sd_big ==
    [ json |-> "dict", slide_number |-> 9, title |-> T_Overview,
      content_blocks |-> << Bullets(3) >> ]
sd_bad ==
    [ json |-> "dict", slide_number |-> 9, title |-> T_Overview,
      content_blocks |-> << [ json |-> "str" ] >> ]

\* Replies to the layout-selection prompt: the call fails, it names a
\* layout of the file catalog, it names none.
sel_raise == [ call |-> "raise", text |-> <<>>, id |-> "" ]
sel_valid == [ call |-> "ok", text |-> <<"ID">>, id |-> "content_with_title" ]
sel_invalid == [ call |-> "ok", text |-> <<"\"", "ID", "\"">>, id |-> "fancy" ]

SelReplies == { sel_raise, sel_valid, sel_invalid }

\* Replies to the trim prompt.
ShrinkReplies ==
    { [ call |-> "raise", text |-> <<>>, value |-> [ json |-> "num" ] ],
      [ call |-> "ok", text |-> <<"X">>, value |-> [ json |-> "num" ] ],
      [ call |-> "ok", text |-> <<"J">>,
        value |-> [ json |-> "dict", title |-> T_Overview,
                    content_blocks |-> << Bullets(2) >> ] ],
      [ call |-> "ok", text |-> <<"J">>,
        value |-> [ json |-> "dict", title |-> T_Overview,
                    content_blocks |-> << Bullets(3) >> ] ],
      [ call |-> "ok", text |-> <<"J">>,
        value |-> [ json |-> "dict", title |-> T_Overview ] ] }

\* A slide of the plan with the reply its layout selection gets.  The
\* selection is never asked for an element that is not a dict.
Cases ==
    ({ sd_str, sd_num } \X { sel_raise })
    \cup ({ sd_ok, sd_big, sd_bad } \X SelReplies)

CaseLists == UNION { [ 1..n -> Cases ] : n \in 0..MaxPlans }

ListInput(cs, text) ==
    [ plan |-> [ call |-> "ok", text |-> text,
                 value |-> [ json |-> "list",
                             items |-> [ i \in DOMAIN cs |-> cs[i][1] ] ] ],
      sel |-> [ i \in DOMAIN cs |-> cs[i][2] ] ]

OtherInput(call, text, value) ==
    [ plan |-> [ call |-> call, text |-> text, value |-> value ],
      sel |-> << sel_valid >> ]

\* What one build is given: the planner's reply and, per slide, the reply
\* to the layout-selection prompt.
Inputs ==
    { ListInput(cs, <<"J">>) : cs \in CaseLists }
    \cup { ListInput(<< <<sd_ok, sel_valid>> >>, t) :
             t \in { <<"ws", "fence", "json", "ws", "J", "ws", "fence", "ws">>,
                     <<"fence", "ws", "J", "ws", "fence">>,
                     <<"prose", "ws", "J">> } }
    \cup { OtherInput("raise", <<>>, [ json |-> "num" ]),
           OtherInput("ok", <<"X">>, [ json |-> "num" ]),
           OtherInput("ok", <<"J">>, [ json |-> "num" ]),
           OtherInput("ok", <<"J">>, sd_big) }

\* The slides of a document nobody has built yet.
OldSlides(k) == [ j \in 1..k |-> [ build |-> 0, plan |-> j, shapes |-> <<>> ] ]


\* ---------------------------------------------------------------- the state
VARIABLES
    layouts,       \* self.layout_engine.layouts, loaded at construction
    slideLayouts,  \* how many slide layouts the document's masters hold
    inp,           \* the collaborator's replies to the builds of this run
    file,          \* the persisted document: its slides
    prs,           \* the document in memory during a build
    pc,            \* where build_from_structured_text stands
    build,         \* the number of the build running or last run
    slide_plan,    \* the parsed plan list
    idx,           \* slide_idx + 1
    slide_data,    \* the working plan of the slide being built
    layout_id,     \* the layout selected for it
    result,        \* what the last build returned
    trace,         \* what the running build did, in order
    before,        \* the persisted slides when the running build started
    ret,           \* the result of a direct call of a capacity helper
    sessions,      \* app.py's sessions dict: the structure and the cached previews
    libreoffice_lock  \* held by the request that renders previews

vars ==
    << layouts, slideLayouts, inp, file, prs, pc, build, slide_plan, idx,
       slide_data, layout_id, result, trace, before, ret, sessions,
       libreoffice_lock >>

Ev(e, i) == [ e |-> e, i |-> i ]

\* The sessions dict when the web handlers are not part of the run.
NoSessions == <<>>

NoData == [ json |-> "none" ]

Init ==
    /\ layouts \in Catalogs
    /\ slideLayouts \in {0, 7}
    /\ inp \in Inputs
    /\ file \in { OldSlides(k) : k \in 0..MaxOld }
    /\ prs = <<>>
    /\ pc = "idle"
    /\ build = 0
    /\ slide_plan = <<>>
    /\ idx = 0
    /\ slide_data = NoData
    /\ layout_id = ""
    /\ result = FALSE
    /\ trace = <<>>
    /\ before = file
    /\ ret = [ fn |-> "none" ]
    /\ sessions = NoSessions
    /\ libreoffice_lock = FALSE

\* ------------------------------------------------ build_from_structured_text
\* A build that detaches nothing.
KeepSlides(slides) == slides

\* The slides left after the loop over reversed(slides_to_remove) drops
\* every slide's relationship and _sldIdLst.clear() empties the id list.
ClearSlides(slides) == SubSeq(slides, 1, 0)

\* A build that puts each new slide first.
PrependSlide(slides, slide) == <<slide>> \o slides

\* prs.slides.add_slide(slide_layout): the new slide goes last.
AddSlideTo(slides, slide) == Append(slides, slide)

\* A loop that stops one element short.
LoopDoneEarly(i, plan) == i >= Len(plan)

\* for slide_idx, slide_data in enumerate(slide_plan): the loop is over when
\* every element has had its turn.
LoopDone(i, plan) == i > Len(plan)

\* A build that numbers only the plans the planner left without a number.
NumberIfAbsent(plan, i) == plan @@ ("slide_number" :> i)

\* slide_data['slide_number'] = slide_idx + 1
NumberSlide(plan, i) == ("slide_number" :> i) @@ plan

\* A handler that gives the build up.
AbortOnSlideError == "done"

\* Where the per-slide handler (except Exception ... continue) resumes.
AfterSlideError == "slide"

\* prs.slide_layouts[5], [6], [0] in turn: IndexError when there is none.
HasBlankLayout(n) == n > 5 \/ n > 6 \/ n > 0

\* A capacity block whose handler asks the collaborator again, twice.
capacity_step_retry(L, data, lid, reply) ==
    [ data |-> data, calls |-> 2, warned |-> TRUE ]

\* The capacity block of the loop body: _needs_shrink, then
\* _summarize_to_fit when it says so, both inside one try whose handler
\* logs a warning.  The slide data afterwards, the collaborator calls made,
\* and whether the warning was logged.
capacity_step(L, data, lid, reply) ==
    LET n == needs_shrink(L, data, lid)
        r == summarize_to_fit(L, data, lid, reply)
    IN  IF n = "raise" THEN [ data |-> data, calls |-> 0, warned |-> TRUE ]
        ELSE IF n = "true"
        THEN [ data |-> r.data, calls |-> r.calls, warned |-> r.raised ]
        ELSE [ data |-> data, calls |-> 0, warned |-> FALSE ]

StartBuild ==
    /\ pc \in {"idle", "done"}
    /\ build < MaxBuilds
    /\ pc' = "plan"
    /\ build' = build + 1
    /\ before' = file
    /\ trace' = <<>>
    /\ prs' = <<>>
    /\ slide_plan' = <<>>
    /\ idx' = 0
    /\ slide_data' = NoData
    /\ layout_id' = ""
    /\ result' = FALSE
    /\ UNCHANGED << sessions, libreoffice_lock, layouts, slideLayouts, inp,
                    file, ret >>

\* llm.generate_response(prompt), the cleaning and json.loads; a failure
\* is caught by the outer handler, which returns False.
CallPlanner ==
    /\ pc = "plan"
    /\ trace' = Append(trace, Ev("llm_plan", 0))
    /\ IF PlanParses(inp.plan)
       THEN /\ slide_plan' = PlanList(inp.plan)
            /\ pc' = "load"
       ELSE /\ slide_plan' = slide_plan
            /\ pc' = "done"
    /\ result' = FALSE
    /\ UNCHANGED << sessions, libreoffice_lock, layouts, slideLayouts, inp,
                    file, prs, build, idx, slide_data, layout_id, before,
                    ret >>

\* prs = Presentation(filepath), then every slide is detached.
LoadAndClear ==
    /\ pc = "load"
    /\ prs' = ClearSlides(file)
    /\ trace' = Append(trace, Ev("load", 0))
    /\ idx' = 1
    /\ pc' = "slide"
    /\ UNCHANGED << sessions, libreoffice_lock, layouts, slideLayouts, inp,
                    file, build, slide_plan, slide_data, layout_id, result,
                    before, ret >>

\* The head of the loop body: a string is skipped with a warning, any other
\* element that is not a dict fails at slide_data.get, a dict gets its
\* slide_number.
NextSlide ==
    /\ pc = "slide"
    /\ IF LoopDone(idx, slide_plan)
       THEN /\ pc' = "save"
            /\ UNCHANGED << idx, slide_data, trace >>
       ELSE IF slide_plan[idx].json = "str"
       THEN /\ pc' = "slide"
            /\ idx' = idx + 1
            /\ trace' = trace \o << Ev("begin", idx), Ev("skip", idx) >>
            /\ UNCHANGED slide_data
       ELSE IF ~IsDict(slide_plan[idx])
       THEN /\ pc' = AfterSlideError
            /\ idx' = idx + 1
            /\ trace' = trace \o << Ev("begin", idx), Ev("error", idx) >>
            /\ UNCHANGED slide_data
       ELSE /\ pc' = "select"
            /\ slide_data' = NumberSlide(slide_plan[idx], idx)
            /\ trace' = Append(trace, Ev("begin", idx))
            /\ UNCHANGED idx
    /\ UNCHANGED << sessions, libreoffice_lock, layouts, slideLayouts, inp,
                    file, prs, build, slide_plan, layout_id, result, before,
                    ret >>

\* layout_id = self.layout_engine.analyze_content_for_layout(slide_data, llm)
SelectLayout ==
    /\ pc = "select"
    /\ LET r == analyze_content_for_layout(layouts, slide_data, inp.sel[idx]) IN
       IF r = "raise"
       THEN /\ pc' = AfterSlideError
            /\ idx' = idx + 1
            /\ trace' = trace \o << Ev("llm_select", idx), Ev("error", idx) >>
            /\ UNCHANGED layout_id
       ELSE /\ pc' = "capacity"
            /\ layout_id' = r
            /\ trace' = Append(trace, Ev("llm_select", idx))
            /\ UNCHANGED idx
    /\ UNCHANGED << sessions, libreoffice_lock, layouts, slideLayouts, inp,
                    file, prs, build, slide_plan, slide_data, result,
                    before, ret >>

\* The capacity check and the trim it may ask for.
CapacityCheck ==
    /\ pc = "capacity"
    /\ \E reply \in ShrinkReplies :
         LET c == capacity_step(layouts, slide_data, layout_id, reply) IN
         /\ slide_data' = c.data
         /\ trace' = trace
                     \o [ k \in 1..c.calls |-> Ev("llm_shrink", idx) ]
                     \o (IF c.warned THEN << Ev("warning", idx) >> ELSE <<>>)
    /\ pc' = "add"
    /\ UNCHANGED << sessions, libreoffice_lock, layouts, slideLayouts, inp,
                    file, prs, build, slide_plan, idx, layout_id, result,
                    before, ret >>

\* slide = prs.slides.add_slide(slide_layout)
AddSlide ==
    /\ pc = "add"
    /\ IF HasBlankLayout(slideLayouts)
       THEN /\ prs' = AddSlideTo(prs, [ build |-> build, plan |-> idx, shapes |-> <<>> ])
            /\ trace' = Append(trace, Ev("add_slide", idx))
            /\ pc' = "apply"
            /\ UNCHANGED idx
       ELSE /\ pc' = AfterSlideError
            /\ idx' = idx + 1
            /\ trace' = Append(trace, Ev("error", idx))
            /\ UNCHANGED prs
    /\ UNCHANGED << sessions, libreoffice_lock, layouts, slideLayouts, inp,
                    file, build, slide_plan, slide_data, layout_id, result,
                    before, ret >>

\* self.layout_engine.apply_layout(slide, layout_id, slide_data); the slide
\* is already part of prs.slides when an element handler raises.
ApplyLayout ==
    /\ pc = "apply"
    /\ LET r == apply_layout(layouts, <<>>, layout_id, slide_data) IN
       /\ prs' = [ prs EXCEPT ![Len(prs)].shapes = r.shapes ]
       /\ trace' = IF r.raised THEN Append(trace, Ev("error", idx))
                   ELSE Append(trace, Ev("applied", idx))
       /\ pc' = IF r.raised THEN AfterSlideError ELSE "slide"
    /\ idx' = idx + 1
    /\ UNCHANGED << sessions, libreoffice_lock, layouts, slideLayouts, inp,
                    file, build, slide_plan, slide_data, layout_id, result,
                    before, ret >>

\* A build that reports failure when a plan of its list failed.
ReturnFalseOnError(t) == ~\E k \in DOMAIN t : t[k].e = "error"

\* return True, after the save, whatever the loop logged.
ReturnAfterSave(t) == TRUE

\* prs.save(filepath); return True
Save ==
    /\ pc = "save"
    /\ file' = prs
    /\ trace' = Append(trace, Ev("save", 0))
    /\ result' = ReturnAfterSave(trace)
    /\ pc' = "done"
    /\ UNCHANGED << sessions, libreoffice_lock, layouts, slideLayouts, inp,
                    prs, build, slide_plan, idx, slide_data, layout_id,
                    before, ret >>

Next ==
    \/ StartBuild
    \/ CallPlanner
    \/ LoadAndClear
    \/ NextSlide
    \/ SelectLayout
    \/ CapacityCheck
    \/ AddSlide
    \/ ApplyLayout
    \/ Save

Spec == Init /\ [][Next]_vars


\* ------------------------------------------- direct calls of the helpers
\* Slides whose content is counted against each kind of limit.
sd_boxes ==
    [ json |-> "dict", slide_number |-> 2, title |-> T_Overview,
      content_blocks |->
        << [ json |-> "dict", type |-> "content_box", items |-> <<"a">> ],
           [ json |-> "dict", type |-> "content_box", items |-> <<"a", "b", "c">> ],
           [ json |-> "dict", type |-> "content_box" ] >> ]
sd_steps ==
    [ json |-> "dict", slide_number |-> 2, title |-> T_Overview,
      content_blocks |->
        << [ json |-> "dict", type |-> "process", steps |-> <<"a", "b", "c">> ] >> ]
sd_rows ==
    [ json |-> "dict", slide_number |-> 2, title |-> T_Overview,
      content_blocks |->
        << [ json |-> "dict", type |-> "table",
             data |-> << <<"h">>, <<"a">>, <<"b">> >> ] >> ]
sd_untitled ==
    [ json |-> "dict", slide_number |-> 2, content_blocks |-> << Bullets(3) >> ]

CapPlans == { sd_ok, sd_big, sd_bad, sd_boxes, sd_steps, sd_rows, sd_untitled }

NoRet == [ fn |-> "none" ]

InitCap ==
    /\ layouts \in Catalogs
    /\ slide_data \in CapPlans
    /\ layout_id \in LayoutIds(FileCatalog) \cup {"fancy"}
    /\ pc = "direct"
    /\ ret = NoRet
    /\ sessions = NoSessions
    /\ libreoffice_lock = FALSE
    /\ slideLayouts = 7
    /\ inp = OtherInput("raise", <<>>, [ json |-> "num" ])
    /\ file = <<>>
    /\ prs = <<>>
    /\ build = 0
    /\ slide_plan = <<>>
    /\ idx = 0
    /\ result = FALSE
    /\ trace = <<>>
    /\ before = <<>>

\* self._needs_shrink(slide_data, layout_id)
CallNeedsShrink ==
    /\ pc = "direct"
    /\ ret' = [ fn |-> "needs_shrink",
                out |-> needs_shrink(layouts, slide_data, layout_id) ]
    /\ pc' = "returned"
    /\ UNCHANGED << sessions, libreoffice_lock, layouts, slideLayouts, inp,
                    file, prs, build, slide_plan, idx, slide_data,
                    layout_id, result, trace, before >>

\* self._summarize_to_fit(slide_data, layout_id, llm)
CallSummarizeToFit ==
    /\ pc = "direct"
    /\ \E reply \in ShrinkReplies :
         LET r == summarize_to_fit(layouts, slide_data, layout_id, reply) IN
         ret' = [ fn |-> "summarize_to_fit", reply |-> reply,
                  raised |-> r.raised, data |-> r.data, calls |-> r.calls ]
    /\ pc' = "returned"
    /\ UNCHANGED << sessions, libreoffice_lock, layouts, slideLayouts, inp,
                    file, prs, build, slide_plan, idx, slide_data,
                    layout_id, result, trace, before >>

NextCap == CallNeedsShrink \/ CallSummarizeToFit

SpecCap == InitCap /\ [][NextCap]_vars


\* ================================================================ properties
Has(e, i) == \E k \in DOMAIN trace : trace[k] = Ev(e, i)

Count(e, i) == Cardinality({ k \in DOMAIN trace : trace[k] = Ev(e, i) })

\* The first place of an event in the trace (0 when it is not there).
Place(e, i) ==
    IF Has(e, i)
    THEN CHOOSE k \in DOMAIN trace :
           trace[k] = Ev(e, i) /\ \A j \in 1..(k - 1) : trace[j] # Ev(e, i)
    ELSE 0

\* The running build got past planning and loaded the document.
Loaded == Has("load", 0)

\* The build has returned True.
Built == pc = "done" /\ result

\* The planning call failed, or its reply, fences cut, is not a JSON list
\* or object.
PlannerFailed ==
    \/ inp.plan.call = "raise"
    \/ ~JsonLoads(CleanPlanText(inp.plan.text))
    \/ inp.plan.value.json \notin {"dict", "list"}

\* Plan element i has had its turn in the loop and the turn is over.
Processed(i) ==
    /\ Has("begin", i)
    /\ Has("skip", i) \/ Has("error", i) \/ Has("applied", i)

\* A count of the slide's content exceeds the limit its layout declares
\* for it: total bullet items, content boxes, items of one box, process or
\* bullet steps, rows of a table.
ExceedsDeclared(L, data, lid) ==
    LET caps == CapacityOf(L, lid)
        blocks == Get(data, "content_blocks", <<>>)
    IN  \/ "bullets" \in DOMAIN caps
           /\ SumLen(blocks, {"bullets"}, "items") > caps.bullets
        \/ "boxes" \in DOMAIN caps
           /\ Cardinality(BlocksOfType(blocks, "content_box")) > caps.boxes
        \/ "itemsPerBox" \in DOMAIN caps
           /\ \E i \in BlocksOfType(blocks, "content_box") :
                Len(Get(blocks[i], "items", <<>>)) > caps.itemsPerBox
        \/ "steps" \in DOMAIN caps /\ StepCount(blocks) > caps.steps
        \/ "rows" \in DOMAIN caps
           /\ \E i \in BlocksOfType(blocks, "table") :
                Len(Get(blocks[i], "data", <<>>)) > caps.rows

BulletsOver(L, data, lid) ==
    /\ "bullets" \in DOMAIN CapacityOf(L, lid)
    /\ SumLen(Get(data, "content_blocks", <<>>), {"bullets"}, "items")
         > CapacityOf(L, lid).bullets

C2_SlidesInPlanOrder ==
    Built =>
      /\ Len(file) <= Len(slide_plan)
      /\ \A k \in DOMAIN file : file[k].plan \in DOMAIN slide_plan
      /\ \A a, b \in DOMAIN file : a < b => file[a].plan < file[b].plan

C2_Witness ==
    /\ Built
    /\ Len(slide_plan) = 2
    /\ Len(file) = 2

\* C3: when a plan's assembly raises, the error is logged and the build
\* goes on: it does not return before every later plan has had its turn
\* and the document has been saved, and then it returns True.
C3_FailureDoesNotAbort ==
    \A i \in DOMAIN slide_plan :
      Has("error", i) /\ pc = "done" =>
        /\ result
        /\ Has("save", 0)
        /\ \A j \in DOMAIN slide_plan : j > i => Processed(j)

C3_Witness ==
    /\ pc = "done"
    /\ Has("add_slide", 1) /\ Has("error", 1)
    /\ Has("applied", 2)
    /\ Has("save", 0)

\* C4: a plan whose assembly failed has no slide in the persisted
\* document, and the document holds as many slides as plans were
\* assembled.
C4_FailedPlanLeavesNoSlide ==
    Built =>
      /\ \A k \in DOMAIN file : ~Has("error", file[k].plan)
      /\ Len(file) = Cardinality({ i \in DOMAIN slide_plan : Has("applied", i) })

C6_PlannerFailureAborts ==
    pc = "done" /\ PlannerFailed =>
      /\ ~result
      /\ file = before
      /\ prs = <<>>
      /\ trace = << Ev("llm_plan", 0) >>

C6_Witness ==
    /\ pc = "done"
    /\ PlannerFailed
    /\ inp.plan.call = "ok"
    /\ Len(file) > 0

\* C7: when a slide's content exceeds a limit of its selected layout, one
\* trim request is sent for the slide, after its layout was selected and
\* before the slide is added.
C7_TrimRequested ==
    pc \in {"add", "apply"} /\ ExceedsDeclared(layouts, slide_plan[idx], layout_id) =>
      /\ Count("llm_shrink", idx) = 1
      /\ Place("llm_select", idx) < Place("llm_shrink", idx)
      /\ ~Has("add_slide", idx) \/ Place("llm_shrink", idx) < Place("add_slide", idx)

\* C8: needs_shrink returns true when a count exceeds the limit the layout
\* declares for it, and false when none does.
C8_NeedsShrinkDecides ==
    ret.fn = "needs_shrink" =>
      ret.out = (IF ExceedsDeclared(layouts, slide_data, layout_id)
                 THEN "true" ELSE "false")

\* C9: shrink, called for a slide with more bullets than its layout's
\* bullets capacity, returns; then the slide has at most that many
\* bullets, or the plan is as it was and the collaborator call had failed.
C9_ShrinkFitsOrUnchanged ==
    ret.fn = "summarize_to_fit" /\ BulletsOver(layouts, slide_data, layout_id) =>
      /\ ~ret.raised
      /\ \/ ~BulletsOver(layouts, ret.data, layout_id)
         \/ ret.data = slide_data /\ ret.reply.call = "raise"

\* C10: for each slide of a build the shrinker calls the collaborator at
\* most once.
C10_AtMostOneShrinkCall ==
    \A i \in DOMAIN slide_plan : Count("llm_shrink", i) <= 1

C10_Witness ==
    /\ pc = "add"
    /\ ExceedsDeclared(layouts, slide_plan[idx], layout_id)
    /\ Has("warning", idx)
    /\ Count("llm_shrink", idx) = 0

\* The trim reply is no use: the call raised, the text is not JSON once the
\* fences are cut, or the JSON value has no title or no content_blocks.
ShrinkReplyFails(reply) ==
    \/ reply.call = "raise"
    \/ ~JsonLoads(ShrinkText(reply.text))
    \/ ~IsDict(reply.value)
    \/ ~({"title", "content_blocks"} \subseteq DOMAIN reply.value)

\* C11: when the trim call raises, or its reply cannot be parsed, or the
\* parsed object has no title or no content_blocks, shrink returns, and
\* returns the plan with title and content_blocks as they were.
C11_FailedShrinkKeepsPlan ==
    ret.fn = "summarize_to_fit" /\ ShrinkReplyFails(ret.reply) =>
      /\ ~ret.raised
      /\ ret.data = slide_data

\* ------------------------------------------- the selector, called directly
\* Titles of plans: a percent token first, a bare number first, a percent
\* token second, a percent token fourth, a quotation mark, and words of the
\* keyword lists.
\* 87% Customer Satisfaction
T_Percent ==
    <<"8","7","%"," ","C","u","s","t","o","m","e","r"," ","S","a","t","i",
      "s","f","a","c","t","i","o","n">>

\* 125 New Users
T_Number ==
    <<"1","2","5"," ","N","e","w"," ","U","s","e","r","s">>

\* Up 3.5% Again
T_Decimal ==
    <<"U","p"," ","3",".","5","%"," ","A","g","a","i","n">>

\* Sales Grew By 87%
T_Late ==
    <<"S","a","l","e","s"," ","G","r","e","w"," ","B","y"," ","8","7","%">>

\* Say "Hi"
T_Quote ==
    <<"S","a","y"," ","\"","H","i","\"">>

\* Sales Dashboard
T_Dashboard ==
    <<"S","a","l","e","s"," ","D","a","s","h","b","o","a","r","d">>

\* Dramatic Results
T_Dramatic ==
    <<"D","r","a","m","a","t","i","c"," ","R","e","s","u","l","t","s">>

\* Project Timeline
T_Timeline ==
    <<"P","r","o","j","e","c","t"," ","T","i","m","e","l","i","n","e">>

\* Our Platform vs Competition
T_Versus ==
    <<"O","u","r"," ","P","l","a","t","f","o","r","m"," ","v","s"," ","C",
      "o","m","p","e","t","i","t","i","o","n">>

\* Next Steps
T_NextSteps ==
    <<"N","e","x","t"," ","S","t","e","p","s">>

\* Conclusion
T_Conclusion ==
    <<"C","o","n","c","l","u","s","i","o","n">>

SelTitles ==
    { T_Overview, T_Percent, T_Number, T_Decimal, T_Late, T_Quote,
      T_Dashboard, T_Dramatic, T_Timeline, T_Versus, T_NextSteps,
      T_Conclusion }

Block(t) == [ json |-> "dict", type |-> t ]

\* The content_blocks of plans: none, blocks of one type, of mixed types,
\* of the types a layout is dedicated to, and a block that is a string.
SelBlocks ==
    { <<>>,
      << Block("text") >>,
      << Block("table") >>,
      << Block("text"), Block("process") >>,
      << Block("content_box"), Block("content_box") >>,
      << Block("text"), Block("content_box") >>,
      << Block("content_box"), Block("text") >>,
      << Block("text"), Block("text") >>,
      << Block("text"), Block("text"), Block("text") >>,
      << Block("column"), Block("text"), Block("text") >>,
      << Block("text"), Block("text"), Block("text"), Block("text") >>,
      << Block("text"), Block("text"), Block("text"), Block("text"),
         Block("text"), Block("text") >>,
      << [ json |-> "str" ] >> }

\* Plans the selector is called with: slide 1 or 2, with or without a
\* subtitle.
SelPlans ==
    { [ json |-> "dict", slide_number |-> n, title |-> t, content_blocks |-> b ] :
        n \in {1, 2}, t \in SelTitles, b \in SelBlocks }
    \cup { [ json |-> "dict", slide_number |-> 2, title |-> t, subtitle |-> <<"s">>,
             content_blocks |-> b ] : t \in SelTitles, b \in SelBlocks }

\* Replies to the layout-selection prompt: the call fails; an id bare, in
\* double quotes with white space around, in single quotes, in both kinds
\* of quotes, after prose; ids the file catalog has and ids it lacks.
SelReplyTexts ==
    { sel_raise, sel_valid, sel_invalid,
      [ call |-> "ok", text |-> <<"ws", "\"", "ID", "\"", "ws">>, id |-> "table" ],
      [ call |-> "ok", text |-> <<"'", "ID", "'">>, id |-> "title_slide" ],
      [ call |-> "ok", text |-> <<"'", "\"", "ID", "\"", "'">>, id |-> "table" ],
      [ call |-> "ok", text |-> <<"prose", "ws", "ID">>, id |-> "table" ],
      [ call |-> "ok", text |-> <<"ID">>, id |-> "quote" ] }

\* Where LayoutEngine reads its layouts from: a layout file, no file, a file
\* that is not JSON.
Sources == { "file", "missing", "invalid" }

\* _load_layouts(layout_file): the file's content, or the built-in catalog
\* when the file cannot be opened or parsed.
load_layouts(source) ==
    IF source = "file" THEN FileCatalog ELSE DefaultCatalog

InitSel ==
    /\ inp \in [ source : Sources, reply : SelReplyTexts ]
    /\ layouts = load_layouts(inp.source)
    /\ slide_data \in SelPlans
    /\ layout_id = ""
    /\ pc = "direct"
    /\ ret = NoRet
    /\ sessions = NoSessions
    /\ libreoffice_lock = FALSE
    /\ slideLayouts = 7
    /\ file = <<>>
    /\ prs = <<>>
    /\ build = 0
    /\ slide_plan = <<>>
    /\ idx = 0
    /\ result = FALSE
    /\ trace = <<>>
    /\ before = <<>>

\* self.analyze_content_for_layout(slide_content, llm)
CallAnalyze ==
    /\ pc = "direct"
    /\ ret' = [ fn |-> "analyze",
                out |-> analyze_content_for_layout(layouts, slide_data, inp.reply) ]
    /\ pc' = "returned"
    /\ UNCHANGED << sessions, libreoffice_lock, layouts, slideLayouts, inp,
                    file, prs, build, slide_plan, idx, slide_data,
                    layout_id, result, trace, before >>

\* self._fallback_layout_selection(slide_content)
CallFallback ==
    /\ pc = "direct"
    /\ ret' = [ fn |-> "fallback",
                out |-> fallback_layout_selection(layouts, slide_data) ]
    /\ pc' = "returned"
    /\ UNCHANGED << sessions, libreoffice_lock, layouts, slideLayouts, inp,
                    file, prs, build, slide_plan, idx, slide_data,
                    layout_id, result, trace, before >>

NextSel == CallAnalyze \/ CallFallback

SpecSel == InitSel /\ [][NextSel]_vars

\* The reply to the layout-selection prompt names a layout of the catalog:
\* the call returned, and its text, white space and quotes around it
\* removed, is an id the catalog has.
ReplyNamesLayout ==
    /\ inp.reply.call = "ok"
    /\ ReplyLayoutId(inp.reply) \in LayoutIds(layouts)

\* C12: the selector returns the reply's id when the reply names a layout
\* of the catalog; when the call raises or the reply names none, it ends
\* as the fallback ends for that plan, returning what the fallback returns.
C12_SelectorFallsBack ==
    ret.fn = "analyze" =>
      ret.out = (IF ReplyNamesLayout THEN inp.reply.id
                 ELSE fallback_layout_selection(layouts, slide_data))

C12_Witness ==
    /\ ret.fn = "analyze"
    /\ inp.reply.call = "ok"
    /\ inp.reply.id = "quote"
    /\ inp.source = "file"
    /\ slide_data.title = T_Percent
    /\ slide_data.slide_number = 2
    /\ ret.out = "big_number"

\* C13: the layout id the selector returns, from the reply or from the
\* fallback's rules, is an id of the loaded catalog, so that apply_layout
\* finds its layout.
C13_SelectedLayoutExists ==
    ret.fn \in {"analyze", "fallback"} /\ ret.out # "raise" =>
      ret.out \in LayoutIds(layouts)

\* The rules of the fallback in the order the specification gives them,
\* each rule with the test and the result the code has for it:
\* (1) slide 1 or a subtitle, (2) a quotation mark in the title, (3) a
\* number token among the first three title words, (4) dashboard and KPI
\* words, (5) a block of a type with a layout of its own, (6) the number of
\* blocks, (7) the other keyword groups, (8) the default layout.
RuleTitleSlide(sd) ==
    Get(sd, "slide_number", 0) = 1 \/ "subtitle" \in DOMAIN sd

RuleQuote(sd) == Contains(Get(sd, "title", <<>>), <<"\"">>)

FirstThreeWords(sd) ==
    LET words == Split(Get(sd, "title", <<>>))
    IN  SubSeq(words, 1, IF Len(words) < 3 THEN Len(words) ELSE 3)

RuleKpi(sd) == AnyTrigger(triggers_kpi, Lower(Get(sd, "title", <<>>)))

RuleOverlay(sd) == AnyTrigger(triggers_overlay, Lower(Get(sd, "title", <<>>)))

RuleBlockType(sd) ==
    \E i \in DOMAIN sd.content_blocks :
      TypedLayout(Get(sd.content_blocks[i], "type", "")) # ""

\* The layout the number of blocks alone decides, "" when it decides none.
BlockCountLayout(blocks) ==
    LET n == Len(blocks) IN
    IF n = 2 /\ Get(blocks[n], "type", "") = "content_box" THEN "two_content_boxes"
    ELSE IF n = 3 /\ BlocksOfType(blocks, "column") # {} THEN "three_columns"
    ELSE IF n = 4 THEN "four_content_grid"
    ELSE IF n = 5 THEN "five_columns"
    ELSE IF n = 6 THEN "six_box_grid"
    ELSE IF n = 2 THEN "two_column_text"
    ELSE IF n = 3 THEN "three_columns"
    ELSE ""

SpecOrderLayout(L, sd) ==
    LET blocks == sd.content_blocks IN
    IF RuleTitleSlide(sd) THEN "title_slide"
    ELSE IF RuleQuote(sd) THEN "quote"
    ELSE IF \E i \in DOMAIN FirstThreeWords(sd) : IsPercentToken(FirstThreeWords(sd)[i])
         THEN "big_number"
    ELSE IF RuleKpi(sd) THEN "kpi_dashboard"
    ELSE IF RuleBlockType(sd) THEN BlockTypeScan(blocks)
    ELSE IF BlockCountLayout(blocks) # "" THEN BlockCountLayout(blocks)
    ELSE IF RuleOverlay(sd) THEN "full_image_overlay"
    ELSE KeywordLayout(L, Lower(sd.title), blocks)

\* C14: for a plan whose blocks are all objects, the fallback returns the
\* layout of the first rule that matches when the rules are tried in the
\* specification's order.
C14_FirstMatchInSpecOrder ==
    ret.fn = "fallback" /\ AllDicts(slide_data.content_blocks) =>
      ret.out = SpecOrderLayout(layouts, slide_data)

\* A percent token: one digit or more, then at most one point, then digits
\* if any, then a percent sign, and nothing else.
PercentToken(w) ==
    \E a \in 1..Len(w), b \in 0..1 :
      /\ \A i \in 1..a : w[i] \in Digits
      /\ b = 1 => a + 1 <= Len(w) /\ w[a + 1] = "."
      /\ \A i \in (a + b + 1)..(Len(w) - 1) : w[i] \in Digits
      /\ a + b < Len(w)
      /\ w[Len(w)] = "%"

\* A numeric token: a number, with or without a percent sign after it.
NumericToken(w) == PercentToken(w) \/ PercentToken(Append(w, "%"))

PastRulesOneAndTwo(sd) == ~RuleTitleSlide(sd) /\ ~RuleQuote(sd)

\* C15, as stated: for a plan rules 1 and 2 do not match, the fallback
\* returns big_number whenever one of the first three title words is a
\* numeric or percent token.
C15_NumberTokenAsStated ==
    /\ ret.fn = "fallback"
    /\ PastRulesOneAndTwo(slide_data)
    /\ \E i \in DOMAIN FirstThreeWords(slide_data) :
         NumericToken(FirstThreeWords(slide_data)[i])
    => ret.out = "big_number"

\* C15, amended: for a plan rules 1 and 2 do not match, the fallback
\* returns big_number exactly when one of the first three title words is
\* a percent token; a number without a percent sign does not trigger it,
\* nor does a token after the third word.
C15_PercentTokenInFirstThree ==
    ret.fn = "fallback" /\ PastRulesOneAndTwo(slide_data) =>
      (ret.out = "big_number"
         <=> \E i \in DOMAIN FirstThreeWords(slide_data) :
               PercentToken(FirstThreeWords(slide_data)[i]))

C15_Witness ==
    /\ ret.fn = "fallback"
    /\ slide_data.title \in {T_Percent, T_Decimal}
    /\ slide_data.content_blocks = << Block("table") >>
    /\ PastRulesOneAndTwo(slide_data)
    /\ ret.out = "big_number"

\* No rule before the block-count rules matches the plan: not rules 1 to
\* 5, nor the keyword group the code tests ahead of rule 5.
PastRulesOneToFive(sd) ==
    /\ PastRulesOneAndTwo(sd)
    /\ \A i \in DOMAIN FirstThreeWords(sd) : ~PercentToken(FirstThreeWords(sd)[i])
    /\ ~RuleKpi(sd)
    /\ ~RuleOverlay(sd)
    /\ AllDicts(sd.content_blocks)
    /\ ~RuleBlockType(sd)

\* C16: for a plan rules 1 to 5 do not match, two blocks that are both
\* content boxes give two_content_boxes, and two blocks of which only one
\* is a content box do not.
C16_TwoContentBoxes ==
    /\ ret.fn = "fallback"
    /\ PastRulesOneToFive(slide_data)
    /\ Len(slide_data.content_blocks) = 2
    => (ret.out = "two_content_boxes"
          <=> Cardinality(BlocksOfType(slide_data.content_blocks, "content_box")) = 2)

\* C17: whatever the layouts were loaded from, a missing or invalid file
\* included, the catalog has at least one layout and the default layout it
\* declares is one of its layouts.
C17_CatalogNeverEmpty ==
    /\ Len(layouts.layouts) >= 1
    /\ layouts.defaultLayout \in LayoutIds(layouts)

\* ------------------------------------------------ parse_presentation, edit
\* A shape id is text; here a sequence of its parts: words, numbers written
\* in decimal, and the underscores between them.
Word(w) == [ word |-> w ]
Num(n) == [ int |-> n ]
Sep == [ sep |-> "_" ]

\* f'slide_{slide_idx}_shape_{shape_idx}'
FormatShapeId(slide_idx, shape_idx) ==
    << Word("slide"), Sep, Num(slide_idx), Sep, Word("shape"), Sep, Num(shape_idx) >>

RECURSIVE SplitUnderscore(_, _)
\* shape_id.split('_'): the runs of parts between underscores, empty runs
\* included.
SplitUnderscore(s, run) ==
    IF s = <<>> THEN << run >>
    ELSE IF Head(s) = Sep THEN << run >> \o SplitUnderscore(Tail(s), <<>>)
    ELSE SplitUnderscore(Tail(s), Append(run, Head(s)))

\* int(part): the number when the part is one number and nothing else.
IsInt(part) == Len(part) = 1 /\ "int" \in DOMAIN part[1]

\* _parse_shape_id(shape_id): the two indices; IndexError when there are
\* fewer than four parts, ValueError when part 1 or 3 is no number.
parse_shape_id(shape_id) ==
    LET parts == SplitUnderscore(shape_id, <<>>) IN
    IF Len(parts) < 4 \/ ~IsInt(parts[2]) \/ ~IsInt(parts[4])
    THEN [ raised |-> TRUE, slide_idx |-> 0, shape_idx |-> 0 ]
    ELSE [ raised |-> FALSE, slide_idx |-> parts[2][1].int,
           shape_idx |-> parts[4][1].int ]

\* Python's seq[i] for a sequence of n items: the place it denotes, counted
\* from 1, a negative i counting from the end; 0 when it raises IndexError.
PyIndex(n, i) ==
    IF 0 <= i /\ i < n THEN i + 1
    ELSE IF 0 - n <= i /\ i < 0 THEN n + i + 1
    ELSE 0

\* hasattr(shape, 'text'): a table's graphic frame has no text.
HasText(shape) == shape.kind # "table"

\* parse_presentation(filepath): per slide its index and its shapes, per
\* shape its id and, where it has one, its text.
parse_presentation(slides) ==
    [ slides |->
        [ i \in DOMAIN slides |->
            [ index |-> i - 1,
              shapes |->
                [ j \in DOMAIN slides[i].shapes |->
                    IF HasText(slides[i].shapes[j])
                    THEN [ id |-> FormatShapeId(i - 1, j - 1),
                           text |-> slides[i].shapes[j].text ]
                    ELSE [ id |-> FormatShapeId(i - 1, j - 1) ] ] ] ],
      total_slides |-> Len(slides) ]

\* The text _apply_edit hands to ET.fromstring: stripped, a leading fence
\* (with or without the word xml) and a trailing fence cut, stripped again.
CleanEditText(text) ==
    LET c0 == Strip(text)
        c1 == IF StartsWith(c0, <<"fence", "xml">>) THEN SubSeq(c0, 3, Len(c0))
              ELSE IF StartsWith(c0, <<"fence">>) THEN SubSeq(c0, 2, Len(c0))
              ELSE c0
        c2 == IF EndsWith(c1, <<"fence">>) THEN SubSeq(c1, 1, Len(c1) - 1) ELSE c1
    IN  Strip(c2)

\* ET.fromstring(text) succeeds when the text is one XML element.
XmlParses(text) == text = <<"E">>

\* An edit that removes the shape and adds the new element after the last
\* shape of the slide.
apply_edit_append(shapes, k, reply, swap) ==
    IF ~XmlParses(CleanEditText(reply.text))
    THEN [ success |-> FALSE, shapes |-> shapes ]
    ELSE IF swap = "ok"
    THEN [ success |-> TRUE,
           shapes |-> Append(SubSeq(shapes, 1, k - 1) \o SubSeq(shapes, k + 1, Len(shapes)),
                             Shape("edited", reply.new)) ]
    ELSE [ success |-> FALSE,
           shapes |-> SubSeq(shapes, 1, k - 1) \o SubSeq(shapes, k + 1, Len(shapes)) ]

\* _apply_edit(shape, xml_string) on shape k of a slide's shapes: whether
\* it returned True, and the shapes in memory afterwards.  The old element
\* is removed before the new one is inserted; when the insertion raises,
\* the handler returns False and the shape is gone from the slide in
\* memory.
apply_edit(shapes, k, reply, swap) ==
    IF ~XmlParses(CleanEditText(reply.text))
    THEN [ success |-> FALSE, shapes |-> shapes ]
    ELSE IF swap = "ok"
    THEN [ success |-> TRUE,
           shapes |-> [ shapes EXCEPT ![k] = Shape("edited", reply.new) ] ]
    ELSE [ success |-> FALSE,
           shapes |-> SubSeq(shapes, 1, k - 1) \o SubSeq(shapes, k + 1, Len(shapes)) ]

\* An edit that saves whatever _apply_edit returned.
SavesAlways(success) == TRUE

\* if success: prs.save(filepath)
SavesEdit(success) == success

\* edit_shape(filepath, shape_id, command, context_mode, structure, llm):
\* how the call ended, what it returned, the document in memory and the
\* file afterwards, and the collaborator calls and saves it made.
edit_shape(doc, shape_id, structure, reply, swap) ==
    LET loc == parse_shape_id(shape_id)
        si == PyIndex(Len(doc), loc.slide_idx)
        ki == PyIndex(Len(doc[si].shapes), loc.shape_idx)
        a == apply_edit(doc[si].shapes, ki, reply, swap)
        mem == [ doc EXCEPT ![si].shapes = a.shapes ]
        raised == [ outcome |-> "raised", mem |-> doc, file |-> doc,
                    calls |-> 0, saves |-> 0 ]
        notfound == [ outcome |-> "returned", success |-> FALSE,
                      structure |-> structure, mem |-> doc, file |-> doc,
                      calls |-> 0, saves |-> 0 ]
    IN  IF loc.raised THEN raised
        ELSE IF loc.slide_idx >= Len(doc) THEN notfound
        ELSE IF si = 0 THEN raised
        ELSE IF loc.shape_idx >= Len(doc[si].shapes) THEN notfound
        ELSE IF ki = 0 THEN raised
        ELSE IF reply.call = "raise" THEN [ raised EXCEPT !.calls = 1 ]
        ELSE IF SavesEdit(a.success)
        THEN [ outcome |-> "returned", success |-> TRUE,
               structure |-> parse_presentation(mem), mem |-> mem, file |-> mem,
               calls |-> 1, saves |-> 1 ]
        ELSE [ outcome |-> "returned", success |-> FALSE,
               structure |-> structure, mem |-> mem, file |-> doc,
               calls |-> 1, saves |-> 0 ]

\* Documents an edit is asked of: up to two slides of up to two shapes.
EditShapeLists ==
    { <<>>, << Shape("title", <<"a">>) >>,
      << Shape("title", <<"a">>), Shape("content", <<"b">>) >> }

EditDocs ==
    UNION { [ 1..n -> { [ build |-> 0, plan |-> 0, shapes |-> s ] :
                          s \in EditShapeLists } ] : n \in 0..2 }

\* Shape ids a caller sends: ids of the form parse_presentation gives, with
\* indices inside and outside the document, and text of another form.
EditShapeIds ==
    { FormatShapeId(i, j) : i \in -2..2, j \in -2..2 }
    \cup { << Word("slide"), Sep, Num(0) >>,
           << Word("slide"), Sep, Word("x"), Sep, Word("shape"), Sep, Num(0) >>,
           << Word("bogus") >> }

\* Replies to the edit prompt: the call fails; the new element bare, inside
\* fences, after prose; text that is no XML.
EditReplies ==
    { [ call |-> "raise", text |-> <<>>, new |-> <<>> ] }
    \cup { [ call |-> "ok", text |-> t, new |-> <<"n">> ] :
             t \in { <<"E">>, <<"ws", "E", "ws">>,
                     <<"fence", "xml", "ws", "E", "ws", "fence">>,
                     <<"fence", "ws", "E", "ws", "fence", "ws">>,
                     <<"prose", "ws", "E">>, <<"X">>, <<>> } }

\* parent.insert(index, new_element) returns or raises.
Swaps == { "ok", "raise" }

InitEdit ==
    /\ file \in EditDocs
    /\ \E stale \in BOOLEAN :
         inp \in [ shape_id : EditShapeIds, reply : EditReplies, swap : Swaps,
                   structure : { parse_presentation(IF stale THEN <<>> ELSE file) } ]
    /\ before = file
    /\ prs = <<>>
    /\ pc = "direct"
    /\ ret = NoRet
    /\ sessions = NoSessions
    /\ libreoffice_lock = FALSE
    /\ layouts = FileCatalog
    /\ slide_data = NoData
    /\ layout_id = ""
    /\ slideLayouts = 7
    /\ build = 0
    /\ slide_plan = <<>>
    /\ idx = 0
    /\ result = FALSE
    /\ trace = <<>>

\* self.edit_shape(filepath, shape_id, command, context_mode, structure, llm)
EditShape ==
    /\ pc = "direct"
    /\ LET r == edit_shape(file, inp.shape_id, inp.structure, inp.reply, inp.swap) IN
       /\ ret' = IF r.outcome = "raised"
                 THEN [ fn |-> "edit_shape", outcome |-> "raised" ]
                 ELSE [ fn |-> "edit_shape", outcome |-> "returned",
                        success |-> r.success, structure |-> r.structure ]
       /\ prs' = r.mem
       /\ file' = r.file
       /\ trace' = [ k \in 1..r.calls |-> Ev("llm_edit", 0) ]
                   \o [ k \in 1..r.saves |-> Ev("save", 0) ]
    /\ pc' = "returned"
    /\ UNCHANGED << sessions, libreoffice_lock, layouts, slideLayouts, inp,
                    build, slide_plan, idx, slide_data, layout_id, result,
                    before >>

NextEdit == EditShape

SpecEdit == InitEdit /\ [][NextEdit]_vars

\* The locator was read from the shape id and points outside the document:
\* at no slide of it, or at no shape of its slide.
LocatorOutOfRange ==
    LET loc == parse_shape_id(inp.shape_id) IN
    /\ ~loc.raised
    /\ \/ loc.slide_idx \notin 0..(Len(before) - 1)
       \/ loc.shape_idx \notin 0..(Len(before[loc.slide_idx + 1].shapes) - 1)

\* The edit got a reply and could not apply it: the reply is no XML
\* element once the fences are cut, or the swap of the elements raised.
EditNotApplied ==
    /\ Has("llm_edit", 0)
    /\ inp.reply.call = "ok"
    /\ ~XmlParses(CleanEditText(inp.reply.text)) \/ inp.swap = "raise"

\* C18: when the edit reply cannot be parsed, or the swap cannot be
\* completed, edit returns failure and the structure it was given, and the
\* file is as it was: nothing is saved.
C18_FailedEditLeavesFile ==
    ret.fn = "edit_shape" /\ EditNotApplied =>
      /\ ret.outcome = "returned"
      /\ ~ret.success
      /\ ret.structure = inp.structure
      /\ file = before
      /\ ~Has("save", 0)

C18_Witness ==
    /\ ret.fn = "edit_shape"
    /\ EditNotApplied
    /\ XmlParses(CleanEditText(inp.reply.text))
    /\ prs # before
    /\ file = before
    /\ ret.structure # parse_presentation(file)

\* C19: an edit whose locator points outside the document returns failure
\* and the structure it was given, without a collaborator call and without
\* a save.
C19_OutOfRangeNotFound ==
    ret.fn = "edit_shape" /\ LocatorOutOfRange =>
      /\ ret.outcome = "returned"
      /\ ~ret.success
      /\ ret.structure = inp.structure
      /\ trace = <<>>
      /\ file = before

\* C20: in the document a build has saved, parsed again, the slide of every
\* plan that has a title and was assembled without an error holds a shape
\* whose text is that title, as the planner gave it.
C20_TitleRoundTrip ==
    Built =>
      \A k \in DOMAIN file :
        LET plan == slide_plan[file[k].plan]
            shapes == parse_presentation(file).slides[k].shapes
        IN  /\ IsDict(plan)
            /\ "title" \in DOMAIN plan
            /\ Has("applied", file[k].plan)
            => \E j \in DOMAIN shapes :
                 "text" \in DOMAIN shapes[j] /\ shapes[j].text = plan.title

\* ---------------------------------------------- the extractors, called directly
\* Most blocks of a content_blocks list an extractor is called with.
ExtMaxBlocks == 2

Chars_Element == <<"E","l","e","m","e","n","t"," ">>

DigitChar == <<"1","2","3","4">>

\* str.strip() of a text spelled character by character.
StripSp(s) == StripTok(s, " ")

\* item.split(':', 1): the text before the first colon and the text after.
SplitColon(item) ==
    LET k == CHOOSE i \in DOMAIN item :
               item[i] = ":" /\ \A j \in 1..(i - 1) : item[j] # ":"
    IN  << SubSeq(item, 1, k - 1), SubSeq(item, k + 1, Len(item)) >>

\* One entry of the timeline: date and event around the first colon, or
\* the whole item as the event.
TimelineItem(item) ==
    IF \E i \in DOMAIN item : item[i] = ":"
    THEN [ date |-> StripSp(SplitColon(item)[1]),
           event |-> StripSp(SplitColon(item)[2]) ]
    ELSE [ date |-> <<>>, event |-> item ]

RECURSIVE TimelineItems(_)
TimelineItems(blocks) ==
    IF blocks = <<>> THEN <<>>
    ELSE (IF Head(blocks).type = "bullets" /\ "items" \in DOMAIN Head(blocks)
          THEN [ i \in DOMAIN Head(blocks).items |->
                   TimelineItem(Head(blocks).items[i]) ]
          ELSE <<>>) \o TimelineItems(Tail(blocks))

\* _extract_timeline_data(content): block['type'] is read of every block.
extract_timeline_data(content) ==
    LET blocks == Get(content, "content_blocks", <<>>) IN
    IF \E i \in DOMAIN blocks : "type" \notin DOMAIN blocks[i]
    THEN [ raised |-> TRUE, payload |-> <<>> ]
    ELSE [ raised |-> FALSE, payload |-> TimelineItems(blocks) ]

FirstN(s, n) == SubSeq(s, 1, IF Len(s) < n THEN Len(s) ELSE n)

RECURSIVE Satellites(_)
\* The satellites the loop of _extract_circular_data collects: up to four
\* items of every bullets block, the text of every text block.
Satellites(blocks) ==
    IF blocks = <<>> THEN <<>>
    ELSE (IF Get(Head(blocks), "type", "") = "bullets" /\ "items" \in DOMAIN Head(blocks)
          THEN [ i \in DOMAIN FirstN(Head(blocks).items, 4) |->
                   [ text |-> Head(blocks).items[i] ] ]
          ELSE IF Get(Head(blocks), "type", "") = "text"
          THEN << [ text |-> Head(blocks).text ] >>
          ELSE <<>>) \o Satellites(Tail(blocks))

\* while len(satellites) < 4: satellites.append({"text": f"Element {n}"})
PadSatellites(s) ==
    [ i \in 1..(IF Len(s) < 4 THEN 4 ELSE Len(s)) |->
        IF i <= Len(s) THEN s[i]
        ELSE [ text |-> Append(Chars_Element, DigitChar[i]) ] ]

\* _extract_circular_data(content): block["text"] is read of every text
\* block.
extract_circular_data(content) ==
    LET blocks == Get(content, "content_blocks", <<>>) IN
    IF \E i \in DOMAIN blocks :
         Get(blocks[i], "type", "") = "text" /\ "text" \notin DOMAIN blocks[i]
    THEN [ raised |-> TRUE, payload |-> <<>> ]
    ELSE [ raised |-> FALSE,
           payload |-> [ center |-> Get(content, "title", <<"C","o","r","e">>),
                         satellites |-> FirstN(PadSatellites(Satellites(blocks)), 4) ] ]

\* _extract_overlay_text(content): the text of the first block when that
\* is a text block, "" otherwise.
extract_overlay_text(content) ==
    LET blocks == Get(content, "content_blocks", <<>>) IN
    IF blocks # <<>> /\ Get(blocks[1], "type", "") = "text"
    THEN (IF "text" \in DOMAIN blocks[1]
          THEN [ raised |-> FALSE, payload |-> blocks[1].text ]
          ELSE [ raised |-> TRUE, payload |-> <<>> ])
    ELSE [ raised |-> FALSE, payload |-> <<>> ]

\* _extract_all_text(content): the texts of text blocks and the items of
\* bullets blocks that have them.
RECURSIVE AllText(_)
AllText(blocks) ==
    IF blocks = <<>> THEN <<>>
    ELSE (IF Get(Head(blocks), "type", "") = "text" /\ "text" \in DOMAIN Head(blocks)
          THEN << Head(blocks).text >>
          ELSE IF Get(Head(blocks), "type", "") = "bullets" /\ "items" \in DOMAIN Head(blocks)
          THEN Head(blocks).items
          ELSE <<>>) \o AllText(Tail(blocks))

RECURSIVE JoinLines(_)
\* "\n".join(texts)
JoinLines(texts) ==
    IF texts = <<>> THEN <<>>
    ELSE IF Len(texts) = 1 THEN texts[1]
    ELSE texts[1] \o <<"\n">> \o JoinLines(Tail(texts))

extract_all_text(content) ==
    [ raised |-> FALSE,
      payload |-> JoinLines(AllText(Get(content, "content_blocks", <<>>))) ]

\* Blocks with and without their optional fields, the type among them.
ExtBlocks ==
    { [ json |-> "dict" ],
      [ json |-> "dict", type |-> "text" ],
      [ json |-> "dict", type |-> "text", text |-> <<"t">> ],
      [ json |-> "dict", type |-> "bullets" ],
      [ json |-> "dict", type |-> "bullets",
        items |-> << <<"1", ":", " ", "a">>, <<"b">> >> ],
      [ json |-> "dict", type |-> "bullets",
        items |-> << <<"a">>, <<"b">>, <<"c">>, <<"d">>, <<"e">> >> ] }

ExtContents ==
    LET lists == UNION { [ 1..n -> ExtBlocks ] : n \in 0..ExtMaxBlocks } IN
    { [ json |-> "dict", title |-> T_Overview, content_blocks |-> b ] : b \in lists }
    \cup { [ json |-> "dict", content_blocks |-> b ] : b \in lists }
    \cup { [ json |-> "dict", title |-> T_Overview ] }

Extractors == { "timeline", "circular", "overlay", "all_text" }

\* The call of one extractor, as _create_element makes it.
extract(name, content) ==
    CASE name = "timeline" -> extract_timeline_data(content)
      [] name = "circular" -> extract_circular_data(content)
      [] name = "overlay" -> extract_overlay_text(content)
      [] name = "all_text" -> extract_all_text(content)

InitExt ==
    /\ slide_data \in ExtContents
    /\ layouts = FileCatalog
    /\ inp = [ source |-> "file" ]
    /\ layout_id = ""
    /\ pc = "direct"
    /\ ret = NoRet
    /\ sessions = NoSessions
    /\ libreoffice_lock = FALSE
    /\ slideLayouts = 7
    /\ file = <<>>
    /\ prs = <<>>
    /\ build = 0
    /\ slide_plan = <<>>
    /\ idx = 0
    /\ result = FALSE
    /\ trace = <<>>
    /\ before = <<>>

CallExtractor ==
    /\ pc = "direct"
    /\ \E name \in Extractors :
         ret' = [ fn |-> name ] @@ extract(name, slide_data)
    /\ pc' = "returned"
    /\ UNCHANGED << sessions, libreoffice_lock, layouts, slideLayouts, inp,
                    file, prs, build, slide_plan, idx, slide_data,
                    layout_id, result, trace, before >>

\* apply_layout(slide, layout_id, content) on a slide just added.
CallApplyLayout ==
    /\ pc = "direct"
    /\ \E id \in LayoutIds(layouts) :
         /\ layout_id' = id
         /\ ret' = [ fn |-> "apply_layout" ] @@ apply_layout(layouts, <<>>, id, slide_data)
    /\ pc' = "returned"
    /\ UNCHANGED << sessions, libreoffice_lock, layouts, slideLayouts, inp,
                    file, prs, build, slide_plan, idx, slide_data, result,
                    trace, before >>

NextExt == CallExtractor \/ CallApplyLayout

SpecExt == InitExt /\ [][NextExt]_vars

\* C21: an extractor never raises: for every content_blocks list, empty or
\* long, with blocks that lack text, items or even their type, it returns
\* a payload.
C21_ExtractorsTotal ==
    ret.fn \in Extractors => ~ret.raised

\* The planner's reply holds a JSON array or object somewhere in its text.
EmbedsPlan ==
    /\ inp.plan.call = "ok"
    /\ \E k \in DOMAIN inp.plan.text : inp.plan.text[k] = "J"
    /\ inp.plan.value.json \in {"dict", "list"}

\* C22: a planning reply whose JSON array is wrapped in code fences or is
\* surrounded by prose is accepted: the build loads the document and works
\* through exactly the plans of the bare array.
C22_WrappedPlanAccepted ==
    pc = "done" /\ EmbedsPlan =>
      /\ Loaded
      /\ slide_plan = PlanList(inp.plan)

\* ------------------------------------------ the web handlers, run in threads
\* The requests one run of the server handles.
MaxRequests == 3

\* The threads of the development server (app.run serves every request in
\* a thread of its own).
Threads == { 1, 2 }

\* The document is a version number here: 0 when the session was
\* created, one more with every save.  A value that may be absent (a key of
\* sessions, a document in memory) is <<>> or <<v>>.
Absent == <<>>

Writers == { "build", "edit" }

InitApp ==
    /\ file = 0
    /\ sessions = [ structure |-> <<0>>, previews |-> Absent ]
    /\ libreoffice_lock = FALSE
    /\ pc = [ t \in Threads |-> "idle" ]
    /\ inp = [ t \in Threads |-> [ op |-> "none", outcome |-> "none" ] ]
    /\ prs = [ t \in Threads |-> Absent ]
    /\ ret = [ t \in Threads |-> [ fn |-> "none" ] ]
    /\ build = 0
    /\ layouts = FileCatalog
    /\ slideLayouts = 7
    /\ slide_plan = <<>>
    /\ idx = 0
    /\ slide_data = NoData
    /\ layout_id = ""
    /\ result = FALSE
    /\ trace = <<>>
    /\ before = <<>>

\* A build request arrives and a thread takes it; the outcome is the one
\* the planner's reply and the save will give it.
build_presentation(t) ==
    /\ pc[t] = "idle"
    /\ build < MaxRequests
    /\ build' = build + 1
    /\ \E o \in { "ok", "fail" } :
         inp' = [ inp EXCEPT ![t] = [ op |-> "build", outcome |-> o ] ]
    /\ pc' = [ pc EXCEPT ![t] = "start" ]
    /\ ret' = [ ret EXCEPT ![t] = [ fn |-> "build" ] ]
    /\ UNCHANGED << file, sessions, libreoffice_lock, prs, layouts,
                    slideLayouts, slide_plan, idx, slide_data, layout_id,
                    result, trace, before >>

\* An edit request arrives; the outcome is whether the reply applies.
edit_presentation(t) ==
    /\ pc[t] = "idle"
    /\ build < MaxRequests
    /\ build' = build + 1
    /\ \E o \in { "ok", "fail" } :
         inp' = [ inp EXCEPT ![t] = [ op |-> "edit", outcome |-> o ] ]
    /\ pc' = [ pc EXCEPT ![t] = "start" ]
    /\ ret' = [ ret EXCEPT ![t] = [ fn |-> "edit" ] ]
    /\ UNCHANGED << file, sessions, libreoffice_lock, prs, layouts,
                    slideLayouts, slide_plan, idx, slide_data, layout_id,
                    result, trace, before >>

\* A preview request arrives; the outcome is whether LibreOffice converts
\* the document.
get_slide_preview(t) ==
    /\ pc[t] = "idle"
    /\ build < MaxRequests
    /\ build' = build + 1
    /\ \E o \in { "ok", "fail" } :
         inp' = [ inp EXCEPT ![t] = [ op |-> "preview", outcome |-> o ] ]
    /\ pc' = [ pc EXCEPT ![t] = "check" ]
    /\ ret' = [ ret EXCEPT ![t] = [ fn |-> "preview" ] ]
    /\ UNCHANGED << file, sessions, libreoffice_lock, prs, layouts,
                    slideLayouts, slide_plan, idx, slide_data, layout_id,
                    result, trace, before >>

\* Presentation(filepath): the writer reads the document.  A build whose
\* planning reply does not parse returns before it.
LoadDocument(t) ==
    /\ pc[t] = "start"
    /\ IF inp[t].op = "build" /\ inp[t].outcome = "fail"
       THEN /\ pc' = [ pc EXCEPT ![t] = "idle" ]
            /\ ret' = [ ret EXCEPT ![t] = [ fn |-> inp[t].op, status |-> 500 ] ]
            /\ UNCHANGED prs
       ELSE /\ pc' = [ pc EXCEPT ![t] = "loaded" ]
            /\ prs' = [ prs EXCEPT ![t] = <<file>> ]
            /\ UNCHANGED ret
    /\ UNCHANGED << file, sessions, libreoffice_lock, inp, build, layouts,
                    slideLayouts, slide_plan, idx, slide_data, layout_id,
                    result, trace, before >>

\* prs.save(filepath) after the calls of the collaborator, or the return
\* of an edit that did not apply.
SaveDocument(t) ==
    /\ pc[t] = "loaded"
    /\ IF inp[t].outcome = "ok"
       THEN /\ file' = file + 1
            /\ prs' = [ prs EXCEPT ![t] = <<file + 1>> ]
            /\ pc' = [ pc EXCEPT ![t] = "saved" ]
            /\ UNCHANGED ret
       ELSE /\ prs' = [ prs EXCEPT ![t] = Absent ]
            /\ pc' = [ pc EXCEPT ![t] = "idle" ]
            /\ ret' = [ ret EXCEPT ![t] = [ fn |-> inp[t].op, status |-> 500 ] ]
            /\ UNCHANGED file
    /\ UNCHANGED << sessions, libreoffice_lock, inp, build, layouts,
                    slideLayouts, slide_plan, idx, slide_data, layout_id,
                    result, trace, before >>

\* sessions[session_id]['structure'] = ...: the build parses the file
\* again, the edit stores what edit_shape parsed after its save.
UpdateStructure(t) ==
    /\ pc[t] = "saved"
    /\ sessions' = [ sessions EXCEPT !.structure =
                       IF inp[t].op = "build" THEN <<file>> ELSE prs[t] ]
    /\ pc' = [ pc EXCEPT ![t] = "invalidate" ]
    /\ UNCHANGED << file, libreoffice_lock, inp, prs, ret, build, layouts,
                    slideLayouts, slide_plan, idx, slide_data, layout_id,
                    result, trace, before >>

\* if cache_key in sessions: rmtree(old_preview_dir); del sessions[cache_key]
InvalidatePreviews(t) ==
    /\ pc[t] = "invalidate"
    /\ sessions' = [ sessions EXCEPT !.previews = Absent ]
    /\ prs' = [ prs EXCEPT ![t] = Absent ]
    /\ pc' = [ pc EXCEPT ![t] = "idle" ]
    /\ ret' = [ ret EXCEPT ![t] = [ fn |-> inp[t].op, status |-> 200 ] ]
    /\ UNCHANGED << file, libreoffice_lock, inp, build, layouts,
                    slideLayouts, slide_plan, idx, slide_data, layout_id,
                    result, trace, before >>

\* if cache_key not in sessions or not os.path.exists(...)
CheckCache(t) ==
    /\ pc[t] = "check"
    /\ pc' = [ pc EXCEPT ![t] =
                 IF sessions.previews = Absent THEN "wait" ELSE "cached" ]
    /\ UNCHANGED << file, sessions, libreoffice_lock, inp, prs, ret, build,
                    layouts, slideLayouts, slide_plan, idx, slide_data,
                    layout_id, result, trace, before >>

\* with libreoffice_lock: the conversion reads the document.
Render(t) ==
    /\ pc[t] = "wait"
    /\ ~libreoffice_lock
    /\ libreoffice_lock' = TRUE
    /\ prs' = [ prs EXCEPT ![t] = <<file>> ]
    /\ pc' = [ pc EXCEPT ![t] = "rendering" ]
    /\ UNCHANGED << file, sessions, inp, ret, build, layouts, slideLayouts,
                    slide_plan, idx, slide_data, layout_id, result, trace,
                    before >>

\* generate_all_slide_previews returns the directory, or None and the
\* request is answered with a placeholder.
FinishRender(t) ==
    /\ pc[t] = "rendering"
    /\ libreoffice_lock' = FALSE
    /\ IF inp[t].outcome = "ok"
       THEN /\ pc' = [ pc EXCEPT ![t] = "rendered" ]
            /\ UNCHANGED << prs, ret >>
       ELSE /\ pc' = [ pc EXCEPT ![t] = "idle" ]
            /\ prs' = [ prs EXCEPT ![t] = Absent ]
            /\ ret' = [ ret EXCEPT ![t] = [ fn |-> "preview", served |-> Absent ] ]
    /\ UNCHANGED << file, sessions, inp, build, layouts, slideLayouts,
                    slide_plan, idx, slide_data, layout_id, result, trace,
                    before >>

\* sessions[cache_key] = preview_dir
StoreCache(t) ==
    /\ pc[t] = "rendered"
    /\ sessions' = [ sessions EXCEPT !.previews = prs[t] ]
    /\ prs' = [ prs EXCEPT ![t] = Absent ]
    /\ pc' = [ pc EXCEPT ![t] = "cached" ]
    /\ UNCHANGED << file, libreoffice_lock, inp, ret, build, layouts,
                    slideLayouts, slide_plan, idx, slide_data, layout_id,
                    result, trace, before >>

\* preview_dir = sessions[cache_key] and the picture sent from it; a
\* KeyError when the key was deleted since the check.
ServePreview(t) ==
    /\ pc[t] = "cached"
    /\ ret' = [ ret EXCEPT ![t] =
                  IF sessions.previews = Absent
                  THEN [ fn |-> "preview", status |-> 500 ]
                  ELSE [ fn |-> "preview", served |-> sessions.previews,
                         current |-> <<file>> ] ]
    /\ pc' = [ pc EXCEPT ![t] = "idle" ]
    /\ UNCHANGED << file, sessions, libreoffice_lock, inp, prs, build,
                    layouts, slideLayouts, slide_plan, idx, slide_data,
                    layout_id, result, trace, before >>

NextApp ==
    \E t \in Threads :
      \/ build_presentation(t)
      \/ edit_presentation(t)
      \/ get_slide_preview(t)
      \/ LoadDocument(t)
      \/ SaveDocument(t)
      \/ UpdateStructure(t)
      \/ InvalidatePreviews(t)
      \/ CheckCache(t)
      \/ Render(t)
      \/ FinishRender(t)
      \/ StoreCache(t)
      \/ ServePreview(t)

SpecApp == InitApp /\ [][NextApp]_vars

\* The requests that have loaded the document and not yet saved it or
\* given up.
BetweenLoadAndSave ==
    { t \in Threads : inp[t].op \in Writers /\ pc[t] = "loaded" }

\* C23: two writing requests on a session never overlap: at most one of
\* them is between loading the document and saving it.
C23_SingleWriter ==
    Cardinality(BetweenLoadAndSave) <= 1

\* No request is being handled.
Quiescent == \A t \in Threads : pc[t] = "idle"

\* C27: the cached previews are never those of an earlier version of the
\* document: once every request has returned, the cache is empty or holds
\* the previews of the document as it is.
C27_CacheNeverStale ==
    Quiescent => sessions.previews \in { Absent, <<file>> }

\* No rule that looks at the plan's position, punctuation, block types or
\* block count matches the plan.
PastStructuralRules(sd) ==
    /\ PastRulesOneToFive(sd)
    /\ BlockCountLayout(sd.content_blocks) = ""

\* C24: for a plan no structural rule matches, a title that contains next
\* steps, action items, get started or conclusion is given call_to_action.
C24_CallToAction ==
    /\ ret.fn = "fallback"
    /\ PastStructuralRules(slide_data)
    /\ AnyTrigger(triggers_cta, Lower(slide_data.title))
    => ret.out = "call_to_action"

\* The content boxes among the shapes of a slide, in the order they were
\* added.
BoxShapes(shapes) == SelectSeq(shapes, LAMBDA s : s.kind = "content_box")

\* C25: of several elements of one indexed type, the k-th renders the k-th
\* block: of the content boxes of a slide the k-th shows block k, there are
\* no more boxes than blocks, and no block is shown twice.
C25_KthElementKthBlock ==
    ret.fn = "apply_layout" /\ ~ret.raised =>
      LET b == BoxShapes(ret.shapes) IN
      /\ Len(b) <= Len(Get(slide_data, "content_blocks", <<>>))
      /\ \A k \in DOMAIN b : b[k].block = k

\* The places (slide, shape) where the persisted document differs from the
\* document the edit found.
ChangedPlaces ==
    { p \in UNION { { <<s, k>> : k \in DOMAIN before[s].shapes } : s \in DOMAIN before } :
        file[p[1]].shapes[p[2]] # before[p[1]].shapes[p[2]] }

\* The place a locator inside the document names.
LocatorPlace ==
    LET loc == parse_shape_id(inp.shape_id) IN
    << loc.slide_idx + 1, loc.shape_idx + 1 >>

InBody == pc \in { "select", "capacity", "add", "apply" }

\* C29: every plan is given its place in the list, counted from 1, as its
\* slide_number before its layout is selected, whatever number the planner
\* gave it; the places of skipped and failed plans are not given again, so
\* the slides assembled carry strictly increasing numbers; the first plan
\* is selected with slide_number 1.
C29_NumberedByPosition ==
    /\ InBody => slide_data.slide_number = idx
    /\ InBody /\ idx = 1 => slide_data.slide_number = 1
    /\ pc = "apply" => prs[Len(prs)].plan = slide_data.slide_number
    /\ \A a, b \in DOMAIN prs : a < b => prs[a].plan < prs[b].plan

C29_Witness ==
    /\ pc = "apply"
    /\ idx = 2
    /\ "slide_number" \in DOMAIN slide_plan[2]
    /\ slide_plan[2].slide_number = 9
    /\ slide_data.slide_number = 2
    /\ Has("error", 1) \/ Has("skip", 1)
    /\ Len(prs) = 1
    /\ prs[1].plan = 2

\* C30: a shrink whose reply is usable returns the plan with the reply's
\* title and content_blocks and with every other field (slide_number,
\* subtitle, ...) as it was.
C30_ShrinkReplacesTwoFields ==
    /\ ret.fn = "summarize_to_fit"
    /\ ~ShrinkReplyFails(ret.reply)
    /\ {"title", "content_blocks"} \subseteq DOMAIN slide_data
    => /\ ~ret.raised
       /\ DOMAIN ret.data = DOMAIN slide_data
       /\ ret.data.title = ret.reply.value.title
       /\ ret.data.content_blocks = ret.reply.value.content_blocks
       /\ \A f \in DOMAIN slide_data \ {"title", "content_blocks"} :
            ret.data[f] = slide_data[f]

====
